---- MODULE Spec2Model ----
(***************************************************************************)
(* Model of datamol/fp.py: the fingerprint dispatcher to_fp, the folder    *)
(* fold_count_fp and the vector normalizer fp_to_array.                    *)
(*                                                                         *)
(* A fingerprint value is a record [type, length, elems]:                  *)
(*   the four *SparseIntVect types: length = GetLength(), elems = the dict *)
(*       GetNonzeroElements() (index -> nonzero count);                    *)
(*   SparseBitVect: length = GetNumBits(), DOMAIN elems = GetOnBits();     *)
(*   ExplicitBitVect: elems = the bits, a total map 0..length-1 -> {0,1};  *)
(*   ndarray: elems = the data, a total map 0..length-1 -> Int;            *)
(*   list: a value of a type none of the functions recognise;              *)
(*   NoneType: Python's None.                                              *)
(* A call's outcome is a record [status, exc, arg, value]: status is       *)
(* "return" (value is the returned object) or "raise" (exc is the          *)
(* exception class, arg what the message names).                           *)
(***************************************************************************)
EXTENDS Integers, Sequences, FiniteSets, TLC

\* ---------------------------------------------------------------- bounds
MaxLen == 3
MaxCount == 2
MaxDim == 2

\* ------------------------------------------------------- fingerprint values
SparseIntVectTypes ==
    {"UIntSparseIntVect", "IntSparseIntVect", "LongSparseIntVect", "ULongSparseIntVect"}

SignedTypes == {"IntSparseIntVect", "LongSparseIntVect"}

None == [type |-> "NoneType", length |-> 0, elems |-> <<>>]

\* Partial maps from 0..n-1 into vals.
PartialMaps(n, vals) ==
    UNION {[s -> vals] : s \in SUBSET (0 .. n - 1)}

CountValues(type) ==
    IF type \in SignedTypes THEN {-1} \cup (1 .. MaxCount) ELSE 1 .. MaxCount

SparseIntVects ==
    UNION {{[type |-> t, length |-> n, elems |-> e] : e \in PartialMaps(n, CountValues(t))} :
           t \in SparseIntVectTypes, n \in 0 .. MaxLen}

SparseBitVects ==
    UNION {{[type |-> "SparseBitVect", length |-> n, elems |-> e] : e \in PartialMaps(n, {1})} :
           n \in 0 .. MaxLen}

ExplicitBitVects ==
    UNION {{[type |-> "ExplicitBitVect", length |-> n, elems |-> e] : e \in [0 .. n - 1 -> {0, 1}]} :
           n \in 0 .. MaxLen}

NdArrays ==
    UNION {{[type |-> "ndarray", length |-> n, elems |-> e] : e \in [0 .. n - 1 -> 0 .. MaxCount]} :
           n \in 0 .. MaxLen}

OtherValues ==
    {[type |-> "list", length |-> 0, elems |-> <<>>], None}

Fingerprints ==
    SparseIntVects \cup SparseBitVects \cup ExplicitBitVects \cup NdArrays \cup OtherValues

\* ------------------------------------------------------------------ outcomes
Return(v) == [status |-> "return", exc |-> "", arg |-> "", value |-> v]

Raise(e, a) == [status |-> "raise", exc |-> e, arg |-> a, value |-> None]

NoOutcome == [status |-> "none", exc |-> "", arg |-> "", value |-> None]

\* ------------------------------------------------------------ numpy helpers
\* An array is [dtype, data]; data is a sequence (position k holds index k-1).

Min(S) == CHOOSE m \in S : \A o \in S : m <= o

\* list(d.keys()) / list(d.values()) of a dict the native layer built from an
\* index-ordered map: ascending index order.
RECURSIVE Keys(_)
Keys(d) ==
    IF DOMAIN d = {} THEN <<>>
    ELSE LET k == Min(DOMAIN d)
         IN  <<k>> \o Keys([j \in DOMAIN d \ {k} |-> d[j]])

Values(d) ==
    LET ks == Keys(d) IN [n \in 1 .. Len(ks) |-> d[ks[n]]]

\* np.array(list): an empty list gives a float64 array, a list of Python ints
\* an integer one, a list of floats a float64 one.
np_array(list, elemtype) ==
    [dtype |-> IF Len(list) = 0 THEN "float64" ELSE elemtype, data |-> list]

\* np.zeros(n, dtype=int)
np_zeros(n) == [k \in 1 .. n |-> 0]

\* a % dim, element by element; integer division by zero yields 0.
np_mod(a, dim) ==
    [dtype |-> a.dtype,
     data |-> [k \in 1 .. Len(a.data) |-> IF dim = 0 THEN 0 ELSE a.data[k] % dim]]

\* The index array of a fancy-indexing operation must be of integer type, and
\* every index within the array.
IndexOk(n, i) ==
    /\ i.dtype = "int64"
    /\ \A k \in 1 .. Len(i.data) : i.data[k] \in 0 .. n - 1

\* np.add.at(a, i, v): unbuffered a[i[k]] += v[k], in order, repeated indices
\* accumulating.
RECURSIVE add_at(_, _, _, _)
add_at(a, i, v, k) ==
    IF k > Len(i) THEN a
    ELSE add_at([a EXCEPT ![i[k] + 1] = @ + v[k]], i, v, k + 1)

\* a[i] = v for index and value sequences of the same length.
RECURSIVE put_at(_, _, _, _)
put_at(a, i, v, k) ==
    IF k > Len(i) THEN a
    ELSE put_at([a EXCEPT ![i[k] + 1] = v[k]], i, v, k + 1)

\* np.clip(a, a_min=0, a_max=1)
np_clip(a) ==
    [k \in 1 .. Len(a) |-> IF a[k] < 0 THEN 0 ELSE IF a[k] > 1 THEN 1 ELSE a[k]]

\* A dense integer array of the model, from a numpy data sequence.
ndarray(data) ==
    [type |-> "ndarray", length |-> Len(data), elems |-> [j \in 0 .. Len(data) - 1 |-> data[j + 1]]]

\* -------------------------------------------------------------- fold_count_fp
\* Variant of fold_tmp that also accepts a dense bit array, reading its set bits.
fold_tmp_BitsAsCounts(fp) ==
    IF fp.type \in SparseIntVectTypes THEN [ok |-> TRUE, d |-> fp.elems, vtype |-> "int64"]
    ELSE IF fp.type \in {"SparseBitVect", "ExplicitBitVect"}
    THEN [ok |-> TRUE,
          d |-> [j \in {b \in DOMAIN fp.elems : fp.elems[b] = 1} |-> 1],
          vtype |-> "float64"]
    ELSE [ok |-> FALSE, d |-> <<>>, vtype |-> ""]

\* Lines 329-345: the sparse input as the dict tmp, or "wrong type".
fold_tmp(fp) ==
    IF fp.type \in SparseIntVectTypes
    THEN [ok |-> TRUE, d |-> fp.elems, vtype |-> "int64"]
    ELSE IF fp.type = "SparseBitVect"
    THEN [ok |-> TRUE, d |-> [j \in DOMAIN fp.elems |-> 1], vtype |-> "float64"]
    ELSE [ok |-> FALSE, d |-> <<>>, vtype |-> ""]

\* Lines 354-359: the folded array from the reduced indices and the values.
fold_accumulate(i, v, dim, binary) ==
    LET folded == add_at(np_zeros(dim), i.data, v.data, 1)
    IN  IF binary THEN np_clip(folded) ELSE folded

fold_count_fp(fp, dim, binary) ==
    LET tmp == fold_tmp(fp)
    IN  IF ~tmp.ok THEN Raise("ValueError", fp.type)
        ELSE LET i0 == np_mod(np_array(Keys(tmp.d), "int64"), dim)
                 v  == np_array(Values(tmp.d), tmp.vtype)
                 i  == np_mod(i0, dim)
             IN  IF ~IndexOk(dim, i) THEN Raise("IndexError", "")
                 ELSE Return(ndarray(fold_accumulate(i, v, dim, binary)))

\* ---------------------------------------------------------------- fp_to_array
\* np.array(list(d.items())).T : two rows (indices, values) when there is at
\* least one item, an empty one-dimensional array otherwise.
items_T(d) ==
    IF DOMAIN d = {} THEN <<>> ELSE <<Keys(d), Values(d)>>

\* fp.ToBitString(): one character per bit.
ToBitString(fp) ==
    [k \in 1 .. fp.length |-> IF fp.elems[k - 1] = 1 THEN "1" ELSE "0"]

\* The byte value of a character of a bit string.
ord(c) == IF c = "1" THEN 49 ELSE 48

fp_to_array(fp) ==
    IF fp.type = "ndarray" THEN Return(fp)
    ELSE IF fp.type = "SparseBitVect"
    THEN LET tmp == np_zeros(fp.length)
             on_bits == np_array(Keys(fp.elems), "int64")
         IN  IF ~IndexOk(fp.length, on_bits) THEN Raise("IndexError", "")
             ELSE Return(ndarray(put_at(tmp, on_bits.data, [k \in 1 .. Len(on_bits.data) |-> 1], 1)))
    ELSE IF fp.type = "ExplicitBitVect"
    THEN LET s == ToBitString(fp)
         IN  Return(ndarray([k \in 1 .. Len(s) |-> ord(s[k]) - ord("0")]))
    ELSE IF fp.type \in SparseIntVectTypes
    THEN LET tmp == np_zeros(fp.length)
             t == items_T(fp.elems)
         IN  IF Len(t) # 2 THEN Raise("ValueError", "unpack")
             ELSE Return(ndarray(put_at(tmp, t[1], t[2], 1)))
    ELSE Raise("ValueError", fp.type)

\* ------------------------------------------------------------------ registry
\* The characters of every tag the model uses, for the string operations.
Chars ==
    ("maccs" :> <<"m", "a", "c", "c", "s">>) @@
    ("pattern" :> <<"p", "a", "t", "t", "e", "r", "n">>) @@
    ("layered" :> <<"l", "a", "y", "e", "r", "e", "d">>) @@
    ("erg" :> <<"e", "r", "g">>) @@
    ("estate" :> <<"e", "s", "t", "a", "t", "e">>) @@
    ("avalon-count" :> <<"a", "v", "a", "l", "o", "n", "-", "c", "o", "u", "n", "t">>) @@
    ("avalon" :> <<"a", "v", "a", "l", "o", "n">>) @@
    ("ecfp" :> <<"e", "c", "f", "p">>) @@
    ("fcfp" :> <<"f", "c", "f", "p">>) @@
    ("topological" :> <<"t", "o", "p", "o", "l", "o", "g", "i", "c", "a", "l">>) @@
    ("atompair" :> <<"a", "t", "o", "m", "p", "a", "i", "r">>) @@
    ("rdkit" :> <<"r", "d", "k", "i", "t">>) @@
    ("ecfp-count" :> <<"e", "c", "f", "p", "-", "c", "o", "u", "n", "t">>) @@
    ("fcfp-count" :> <<"f", "c", "f", "p", "-", "c", "o", "u", "n", "t">>) @@
    ("topological-count" :> <<"t", "o", "p", "o", "l", "o", "g", "i", "c", "a", "l", "-", "c", "o", "u", "n", "t">>) @@
    ("atompair-count" :> <<"a", "t", "o", "m", "p", "a", "i", "r", "-", "c", "o", "u", "n", "t">>) @@
    ("rdkit-count" :> <<"r", "d", "k", "i", "t", "-", "c", "o", "u", "n", "t">>) @@
    ("secfp" :> <<"s", "e", "c", "f", "p">>) @@
    ("not-a-real-fp" :> <<"n", "o", "t", "-", "a", "-", "r", "e", "a", "l", "-", "f", "p">>)

Tags == DOMAIN Chars

\* s.endswith(suffix) on character sequences.
endswith(s, suffix) ==
    /\ Len(s) >= Len(suffix)
    /\ SubSeq(s, Len(s) - Len(suffix) + 1, Len(s)) = suffix

_FP_GENERATORS ==
    ("ecfp" :> "GetMorganGenerator") @@
    ("fcfp" :> "GetMorganGenerator") @@
    ("topological" :> "GetTopologicalTorsionGenerator") @@
    ("atompair" :> "GetAtomPairGenerator") @@
    ("rdkit" :> "GetRDKitFPGenerator") @@
    ("ecfp-count" :> "GetMorganGenerator") @@
    ("fcfp-count" :> "GetMorganGenerator") @@
    ("topological-count" :> "GetTopologicalTorsionGenerator") @@
    ("atompair-count" :> "GetAtomPairGenerator") @@
    ("rdkit-count" :> "GetRDKitFPGenerator")

_FP_FUNCS ==
    ("maccs" :> "GetMACCSKeysFingerprint") @@
    ("pattern" :> "PatternFingerprint") @@
    ("layered" :> "LayeredFingerprint") @@
    ("erg" :> "GetErGFingerprint") @@
    ("estate" :> "lambda") @@
    ("avalon-count" :> "GetAvalonCountFP") @@
    ("avalon" :> "GetAvalonFP") @@
    _FP_GENERATORS

\* Parameter values are written as their Python literals.
EmptyArgs == [k \in {} |-> ""]

\* Lines 50-133.
_FP_DEFAULT_ARGS_binary ==
    ("maccs" :> EmptyArgs) @@
    ("avalon" :> [nBits |-> "512", isQuery |-> "False", resetVect |-> "False", bitFlags |-> "avalonSimilarityBits"]) @@
    ("ecfp" :> [radius |-> "3", fpSize |-> "2048", includeChirality |-> "False", useBondTypes |-> "True", countSimulation |-> "False", countBounds |-> "None", atomInvariantsGenerator |-> "None", bondInvariantsGenerator |-> "None"]) @@
    ("fcfp" :> [radius |-> "2", fpSize |-> "2048", includeChirality |-> "False", useBondTypes |-> "True", countSimulation |-> "False", countBounds |-> "None", atomInvariantsGenerator |-> "GetMorganFeatureAtomInvGen()", bondInvariantsGenerator |-> "None"]) @@
    ("topological" :> [includeChirality |-> "False", torsionAtomCount |-> "4", countSimulation |-> "True", countBounds |-> "None", fpSize |-> "2048", atomInvariantsGenerator |-> "None"]) @@
    ("atompair" :> [minDistance |-> "1", maxDistance |-> "30", includeChirality |-> "False", use2D |-> "True", countSimulation |-> "True", countBounds |-> "None", fpSize |-> "2048", atomInvariantsGenerator |-> "None"]) @@
    ("rdkit" :> [minPath |-> "1", maxPath |-> "7", useHs |-> "True", branchedPaths |-> "True", useBondOrder |-> "True", countSimulation |-> "False", countBounds |-> "None", fpSize |-> "2048", numBitsPerFeature |-> "2", atomInvariantsGenerator |-> "None"]) @@
    ("pattern" :> [fpSize |-> "2048", atomCounts |-> "[]", setOnlyBits |-> "None", tautomerFingerprints |-> "False"]) @@
    ("layered" :> [fpSize |-> "2048", minPath |-> "1", maxPath |-> "7", atomCounts |-> "[]", setOnlyBits |-> "None", branchedPaths |-> "True", fromAtoms |-> "0"]) @@
    ("secfp" :> [n_permutations |-> "128", nBits |-> "2048", radius |-> "3", min_radius |-> "1", rings |-> "True", kekulize |-> "False", isomeric |-> "False", seed |-> "0"]) @@
    ("erg" :> [atomTypes |-> "0", fuzzIncrement |-> "0.3", minPath |-> "1", maxPath |-> "15"]) @@
    ("estate" :> EmptyArgs)

\* Lines 135-189 (# COUNTING FP).
_FP_DEFAULT_ARGS_count ==
    ("avalon-count" :> [nBits |-> "512", isQuery |-> "False", bitFlags |-> "avalonSimilarityBits"]) @@
    ("ecfp-count" :> [radius |-> "3", fpSize |-> "2048", includeChirality |-> "False", useBondTypes |-> "True", countSimulation |-> "False", countBounds |-> "None", atomInvariantsGenerator |-> "None", bondInvariantsGenerator |-> "None"]) @@
    ("fcfp-count" :> [radius |-> "2", fpSize |-> "2048", includeChirality |-> "False", useBondTypes |-> "True", countSimulation |-> "False", countBounds |-> "None", atomInvariantsGenerator |-> "GetMorganFeatureAtomInvGen()", bondInvariantsGenerator |-> "None"]) @@
    ("topological-count" :> [includeChirality |-> "False", torsionAtomCount |-> "4", countSimulation |-> "True", countBounds |-> "None", fpSize |-> "2048", atomInvariantsGenerator |-> "None"]) @@
    ("atompair-count" :> [minDistance |-> "1", maxDistance |-> "30", includeChirality |-> "False", use2D |-> "True", countSimulation |-> "True", countBounds |-> "None", fpSize |-> "2048", atomInvariantsGenerator |-> "None"]) @@
    ("rdkit-count" :> [minPath |-> "1", maxPath |-> "7", useHs |-> "True", branchedPaths |-> "True", useBondOrder |-> "True", countSimulation |-> "False", countBounds |-> "None", fpSize |-> "2048", numBitsPerFeature |-> "1", atomInvariantsGenerator |-> "None"])

\* Variant of the table without the entries of the counting fingerprints.
_FP_DEFAULT_ARGS_NoCounting ==
    _FP_DEFAULT_ARGS_binary

_FP_DEFAULT_ARGS ==
    _FP_DEFAULT_ARGS_binary @@ _FP_DEFAULT_ARGS_count

\* -------------------------------------------------------------------- to_fp
\* Molecule inputs: a structure object, a text, or None.
NoMol == [type |-> "NoneType", repr |-> "None"]

Structure(name) == [type |-> "Mol", repr |-> name]

Text(s) == [type |-> "str", repr |-> s]

MolInputs == {Structure("mol1"), Text("text1"), Text("text2"), NoMol}

\* What dm.to_mol may return for a text: a structure, or None.
to_mol_results(text) == {Structure(text.repr), NoMol}

\* fold_size is None (<<>>) or an integer (<<n>>).
FoldSizes == {<<>>} \cup {<<n>> : n \in 0 .. MaxDim}

\* Keyword arguments of a caller: any of these keys, with any of these values.
CallerKeys == {"fpSize", "custom"}

CallerValues == {"None", "0"}

CallerArgs == UNION {[ks -> CallerValues] : ks \in SUBSET CallerKeys}

\* The type of the object each native callable returns.
NativeType(callable) ==
    CASE callable = "GetFingerprint" -> "ExplicitBitVect"
      [] callable = "GetCountFingerprint" -> "UIntSparseIntVect"
      [] callable = "GetMACCSKeysFingerprint" -> "ExplicitBitVect"
      [] callable = "PatternFingerprint" -> "ExplicitBitVect"
      [] callable = "LayeredFingerprint" -> "ExplicitBitVect"
      [] callable = "GetErGFingerprint" -> "ndarray"
      [] callable = "lambda" -> "ndarray"
      [] callable = "GetAvalonCountFP" -> "UIntSparseIntVect"
      [] callable = "GetAvalonFP" -> "ExplicitBitVect"

NativeResults(callable) ==
    {f \in SparseIntVects \cup ExplicitBitVects \cup NdArrays : f.type = NativeType(callable)}

\* Variant of setdefault that also replaces a falsy value already present.
setdefault_Falsy(d, key, value) ==
    IF key \in DOMAIN d /\ d[key] \notin {"None", "0", "False"} THEN d
    ELSE [k \in DOMAIN d \cup {key} |-> IF k = key THEN value ELSE d[k]]

\* dict.setdefault(key, value)
setdefault(d, key, value) ==
    IF key \in DOMAIN d THEN d
    ELSE [k \in DOMAIN d \cup {key} |-> IF k = key THEN value ELSE d[k]]

\* Lines 284-285: the loop over the items of the tag's defaults.
RECURSIVE insert_defaults(_, _)
insert_defaults(args, defaults) ==
    IF DOMAIN defaults = {} THEN args
    ELSE LET key == CHOOSE k \in DOMAIN defaults : TRUE
         IN  insert_defaults(setdefault(args, key, defaults[key]),
                             [k \in DOMAIN defaults \ {key} |-> defaults[k]])

Call(fn, m, args) == [fn |-> fn, mol |-> m, args |-> args]

CountSuffix == <<"-", "c", "o", "u", "n", "t">>

\* ---------------------------------------------------------------------- state
VARIABLES
    op,         \* the public operation in progress
    pc,         \* its position
    mol, as_array, fp_type, fold_size, fp_args,   \* to_fp's parameters
    kwargs,     \* the keyword arguments as the caller of to_fp gave them
    mol_obj, fp_func, fp,                         \* to_fp's locals; fp is also the
                                                  \* input of the other two operations
    dim, binary,                                  \* fold_count_fp's parameters
    calls,      \* the calls made to the collaborators and helpers, in order
    ret         \* the operation's outcome

vars == <<op, pc, mol, as_array, fp_type, fold_size, fp_args, kwargs, mol_obj, fp_func, fp,
          dim, binary, calls, ret>>

Init ==
    /\ op = "none"
    /\ pc = "idle"
    /\ mol = NoMol
    /\ as_array = TRUE
    /\ fp_type = "ecfp"
    /\ fold_size = <<>>
    /\ fp_args = EmptyArgs
    /\ kwargs = EmptyArgs
    /\ mol_obj = NoMol
    /\ fp_func = ""
    /\ fp = None
    /\ dim = 0
    /\ binary = FALSE
    /\ calls = <<>>
    /\ ret = NoOutcome

\* A caller invokes to_fp(mol, as_array, fp_type, fold_size, **fp_args).
CallToFp ==
    /\ pc = "idle"
    /\ \E m \in MolInputs, a \in BOOLEAN, t \in Tags, fs \in FoldSizes, kw \in CallerArgs :
          /\ mol' = m
          /\ as_array' = a
          /\ fp_type' = t
          /\ fold_size' = fs
          /\ fp_args' = kw
          /\ kwargs' = kw
    /\ op' = "to_fp"
    /\ pc' = "l264"
    /\ UNCHANGED <<mol_obj, fp_func, fp, dim, binary, calls, ret>>

\* Variant of ToFpLookup that parses a text input before it rejects the tag.
ToFpLookup_ParseFirst ==
    /\ op = "to_fp" /\ pc = "l264"
    /\ fp_func' = IF fp_type \in DOMAIN _FP_FUNCS THEN _FP_FUNCS[fp_type] ELSE ""
    /\ calls' = IF mol.type = "str" THEN Append(calls, Call("to_mol", mol.repr, EmptyArgs)) ELSE calls
    /\ IF fp_type \notin DOMAIN _FP_FUNCS
       THEN /\ ret' = Raise("ValueError", fp_type)
            /\ pc' = "done"
       ELSE /\ pc' = "l273"
            /\ UNCHANGED ret
    /\ UNCHANGED <<op, mol, as_array, fp_type, fold_size, fp_args, kwargs, mol_obj, fp, dim, binary>>

\* Lines 263-270: fp_func = _FP_FUNCS.get(fp_type); an unknown tag raises.
ToFpLookup ==
    /\ op = "to_fp" /\ pc = "l264"
    /\ fp_func' = IF fp_type \in DOMAIN _FP_FUNCS THEN _FP_FUNCS[fp_type] ELSE ""
    /\ IF fp_type \notin DOMAIN _FP_FUNCS
       THEN /\ ret' = Raise("ValueError", fp_type)
            /\ pc' = "done"
       ELSE /\ pc' = "l273"
            /\ UNCHANGED ret
    /\ UNCHANGED <<op, mol, as_array, fp_type, fold_size, fp_args, kwargs, mol_obj, fp, dim, binary, calls>>

\* Variant of ToFpToMol without the check for a missing structure.
ToFpToMol_NoCheck ==
    /\ op = "to_fp" /\ pc = "l273"
    /\ \E parsed \in to_mol_results(mol) :
          /\ mol_obj' = IF mol.type = "str" THEN parsed ELSE mol
          /\ calls' = IF mol.type = "str"
                      THEN Append(calls, Call("to_mol", mol.repr, EmptyArgs))
                      ELSE calls
          /\ mol' = mol_obj'
          /\ pc' = "l284"
          /\ UNCHANGED ret
    /\ UNCHANGED <<op, as_array, fp_type, fold_size, fp_args, kwargs, fp_func, fp, dim, binary>>

\* Lines 272-281: a text goes through dm.to_mol; no structure raises, naming
\* the input as given.
ToFpToMol ==
    /\ op = "to_fp" /\ pc = "l273"
    /\ \E parsed \in to_mol_results(mol) :
          /\ mol_obj' = IF mol.type = "str" THEN parsed ELSE mol
          /\ calls' = IF mol.type = "str"
                      THEN Append(calls, Call("to_mol", mol.repr, EmptyArgs))
                      ELSE calls
          /\ IF mol_obj' = NoMol
             THEN /\ ret' = Raise("ValueError", mol.repr)
                  /\ pc' = "done"
                  /\ UNCHANGED mol
             ELSE /\ mol' = mol_obj'
                  /\ pc' = "l284"
                  /\ UNCHANGED ret
    /\ UNCHANGED <<op, as_array, fp_type, fold_size, fp_args, kwargs, fp_func, fp, dim, binary>>

\* Lines 283-285: the defaults of the tag are inserted under the caller's
\* arguments; a tag without defaults is a KeyError.
ToFpDefaults ==
    /\ op = "to_fp" /\ pc = "l284"
    /\ IF fp_type \notin DOMAIN _FP_DEFAULT_ARGS
       THEN /\ ret' = Raise("KeyError", fp_type)
            /\ pc' = "done"
            /\ UNCHANGED fp_args
       ELSE /\ fp_args' = insert_defaults(fp_args, _FP_DEFAULT_ARGS[fp_type])
            /\ pc' = "l288"
            /\ UNCHANGED ret
    /\ UNCHANGED <<op, mol, as_array, fp_type, fold_size, kwargs, mol_obj, fp_func, fp, dim, binary, calls>>

\* Variant of generator_method that ignores the suffix.
generator_method_NoSuffix(tag) ==
    "GetFingerprint"

\* Lines 290-293: fp_type.endswith("-count") decides the generator's method.
generator_method(tag) ==
    IF endswith(Chars[tag], CountSuffix) THEN "GetCountFingerprint" ELSE "GetFingerprint"

\* Lines 288-293: the generator is built from the arguments, then one of its
\* methods is called on the structure.  Either native call may raise.
ToFpGenerator ==
    /\ op = "to_fp" /\ pc = "l288"
    /\ fp_type \in DOMAIN _FP_GENERATORS
    /\ LET factory == Call(fp_func, "", fp_args)
           method == generator_method(fp_type)
           use == Call(method, mol.repr, EmptyArgs)
       IN  \/ /\ calls' = Append(calls, factory)
              /\ ret' = Raise("NativeError", fp_func)
              /\ pc' = "done"
              /\ UNCHANGED <<fp_func, fp>>
           \/ /\ calls' = calls \o <<factory, use>>
              /\ fp_func' = "generator"
              /\ ret' = Raise("NativeError", method)
              /\ pc' = "done"
              /\ UNCHANGED fp
           \/ /\ calls' = calls \o <<factory, use>>
              /\ fp_func' = "generator"
              /\ fp' \in NativeResults(method)
              /\ pc' = "l298"
              /\ UNCHANGED ret
    /\ UNCHANGED <<op, mol, as_array, fp_type, fold_size, fp_args, kwargs, mol_obj, dim, binary>>

\* Lines 294-295: the direct function is called on the structure with the
\* arguments.  The "estate" entry (line 43) drops the arguments and takes the
\* first element of FingerprintMol's result.
ToFpDirect ==
    /\ op = "to_fp" /\ pc = "l288"
    /\ fp_type \notin DOMAIN _FP_GENERATORS
    /\ LET direct == Call(fp_func, mol.repr, fp_args)
           inner == IF fp_func = "lambda"
                    THEN <<Call("FingerprintMol", mol.repr, EmptyArgs)>>
                    ELSE <<>>
       IN  /\ calls' = (calls \o <<direct>>) \o inner
           /\ \/ /\ ret' = Raise("NativeError", fp_func)
                 /\ pc' = "done"
                 /\ UNCHANGED fp
              \/ /\ fp' \in NativeResults(fp_func)
                 /\ pc' = "l298"
                 /\ UNCHANGED ret
    /\ UNCHANGED <<op, mol, as_array, fp_type, fold_size, fp_args, kwargs, mol_obj, fp_func, dim, binary>>

\* Lines 297-299: with a fold size the result goes through fold_count_fp.
ToFpFold ==
    /\ op = "to_fp" /\ pc = "l298"
    /\ IF fold_size # <<>>
       THEN LET r == fold_count_fp(fp, fold_size[1], FALSE)
            IN  /\ calls' = Append(calls, Call("fold_count_fp", "", EmptyArgs))
                /\ IF r.status = "raise"
                   THEN /\ ret' = r
                        /\ pc' = "done"
                        /\ UNCHANGED fp
                   ELSE /\ fp' = r.value
                        /\ pc' = "l302"
                        /\ UNCHANGED ret
       ELSE /\ pc' = "l302"
            /\ UNCHANGED <<fp, calls, ret>>
    /\ UNCHANGED <<op, mol, as_array, fp_type, fold_size, fp_args, kwargs, mol_obj, fp_func, dim, binary>>

\* not fold_size: None and 0 are both falsy.
not_fold_size == fold_size = <<>> \/ fold_size[1] = 0

\* Lines 301-305: without a fold size, and with as_array, the result goes
\* through fp_to_array; then it is returned.
ToFpConvert ==
    /\ op = "to_fp" /\ pc = "l302"
    /\ IF not_fold_size /\ as_array
       THEN LET r == fp_to_array(fp)
            IN  /\ calls' = Append(calls, Call("fp_to_array", "", EmptyArgs))
                /\ ret' = r
                /\ fp' = IF r.status = "return" THEN r.value ELSE fp
       ELSE /\ ret' = Return(fp)
            /\ UNCHANGED <<fp, calls>>
    /\ pc' = "done"
    /\ UNCHANGED <<op, mol, as_array, fp_type, fold_size, fp_args, kwargs, mol_obj, fp_func, dim, binary>>

\* A caller invokes fold_count_fp(fp, dim, binary).
CallFoldCountFp ==
    /\ pc = "idle"
    /\ \E f \in Fingerprints, d \in 0 .. MaxDim + 1, b \in BOOLEAN :
          /\ fp' = f
          /\ dim' = d
          /\ binary' = b
          /\ ret' = fold_count_fp(f, d, b)
    /\ op' = "fold_count_fp"
    /\ pc' = "done"
    /\ UNCHANGED <<mol, as_array, fp_type, fold_size, fp_args, kwargs, mol_obj, fp_func, calls>>

\* A caller invokes fp_to_array(fp).
CallFpToArray ==
    /\ pc = "idle"
    /\ \E f \in Fingerprints :
          /\ fp' = f
          /\ ret' = fp_to_array(f)
    /\ op' = "fp_to_array"
    /\ pc' = "done"
    /\ UNCHANGED <<mol, as_array, fp_type, fold_size, fp_args, kwargs, mol_obj, fp_func, dim, binary, calls>>

Next ==
    \/ CallToFp
    \/ ToFpLookup
    \/ ToFpToMol
    \/ ToFpDefaults
    \/ ToFpGenerator
    \/ ToFpDirect
    \/ ToFpFold
    \/ ToFpConvert
    \/ CallFoldCountFp
    \/ CallFpToArray

Spec == Init /\ [][Next]_vars

\* --------------------------------------------------------------- properties
ToFpDone == op = "to_fp" /\ pc = "done"

FoldDone == op = "fold_count_fp" /\ pc = "done"

ArrayDone == op = "fp_to_array" /\ pc = "done"

IsSparse(f) == f.type \in SparseIntVectTypes \cup {"SparseBitVect"}

RECURSIVE SumOver(_, _)
SumOver(S, f) ==
    IF S = {} THEN 0
    ELSE LET j == CHOOSE x \in S : TRUE
         IN  (IF f.type = "SparseBitVect" THEN 1 ELSE f.elems[j]) + SumOver(S \ {j}, f)

\* The sum of the values of f at the indices of residue i modulo d.
ResidueSum(f, d, i) ==
    SumOver({j \in DOMAIN f.elems : j % d = i}, f)

Clip01(x) == IF x < 0 THEN 0 ELSE IF x > 1 THEN 1 ELSE x

\* C1: for every sparse input (also one without nonzero entries) and every
\* dim >= 1, fold_count_fp(fp, dim) with binary=False returns an array of length
\* dim whose element i is the sum of the values of fp at the indices j with
\* j mod dim = i.
C1_FoldIsResidueSum ==
    (FoldDone /\ IsSparse(fp) /\ dim >= 1 /\ ~binary) =>
        /\ ret.status = "return"
        /\ ret.value.type = "ndarray"
        /\ ret.value.length = dim
        /\ DOMAIN ret.value.elems = 0 .. dim - 1
        /\ \A i \in 0 .. dim - 1 : ret.value.elems[i] = ResidueSum(fp, dim, i)

\* The statement of C1 for the inputs that have at least one nonzero entry.
FoldIsResidueSumNonEmpty ==
    (FoldDone /\ IsSparse(fp) /\ dim >= 1 /\ ~binary /\ DOMAIN fp.elems # {}) =>
        /\ ret.status = "return"
        /\ ret.value.type = "ndarray"
        /\ ret.value.length = dim
        /\ DOMAIN ret.value.elems = 0 .. dim - 1
        /\ \A i \in 0 .. dim - 1 : ret.value.elems[i] = ResidueSum(fp, dim, i)

\* A sparse input without nonzero entries always ends in an IndexError.
FoldEmptyRaises ==
    (FoldDone /\ IsSparse(fp) /\ DOMAIN fp.elems = {}) =>
        ret = Raise("IndexError", "")

\* C2: for every sparse input and every dim >= 1, fold_count_fp(fp, dim,
\* binary=True) returns an array of the values 0 and 1 that equals, element by
\* element, the residue sums clamped to 0..1 (the clamp follows the
\* accumulation).
C2_BinaryIsClippedSum ==
    (FoldDone /\ IsSparse(fp) /\ dim >= 1 /\ binary) =>
        /\ ret.status = "return"
        /\ ret.value.type = "ndarray"
        /\ DOMAIN ret.value.elems = 0 .. dim - 1
        /\ \A i \in 0 .. dim - 1 :
              /\ ret.value.elems[i] \in {0, 1}
              /\ ret.value.elems[i] = Clip01(ResidueSum(fp, dim, i))

\* The statement of C2 for the inputs that have at least one nonzero entry.
BinaryIsClippedSumNonEmpty ==
    (FoldDone /\ IsSparse(fp) /\ dim >= 1 /\ binary /\ DOMAIN fp.elems # {}) =>
        /\ ret.status = "return"
        /\ ret.value.type = "ndarray"
        /\ DOMAIN ret.value.elems = 0 .. dim - 1
        /\ \A i \in 0 .. dim - 1 :
              /\ ret.value.elems[i] \in {0, 1}
              /\ ret.value.elems[i] = Clip01(ResidueSum(fp, dim, i))

\* C3: for every registered tag and every valid structure, a to_fp call with a
\* fold width that the native layer did not fail returns a dense array of the
\* length of the fold width, whatever as_array is.
C3_FoldedIsDense ==
    (/\ ToFpDone
     /\ fp_type \in DOMAIN _FP_FUNCS
     /\ mol_obj # NoMol
     /\ fold_size # <<>> /\ fold_size[1] >= 1
     /\ ~(ret.status = "raise" /\ ret.exc = "NativeError")) =>
        /\ ret.status = "return"
        /\ ret.value.type = "ndarray"
        /\ ret.value.length = fold_size[1]

\* C4: with a tag that is not in the registry, to_fp raises the error naming
\* the tag before anything else: the parser is not called, the arguments are
\* not merged and no native computation is started, whatever the molecule.
C4_UnknownTagFailsFirst ==
    (op = "to_fp" /\ fp_type \notin DOMAIN _FP_FUNCS) =>
        /\ pc \in {"l264", "done"}
        /\ pc = "done" => ret = Raise("ValueError", fp_type)
        /\ calls = <<>>
        /\ fp_args = kwargs
        /\ mol_obj = NoMol
        /\ fp = None

C4_Witness ==
    /\ ToFpDone
    /\ fp_type = "secfp"
    /\ mol.type = "str"
    /\ ret.status = "raise"

\* C5: with a registered tag, when the parser returns no structure for a text,
\* or the molecule given is None, to_fp raises the error naming the input, and
\* no factory, native function, folder or normalizer is called.
C5_NoStructureFails ==
    (op = "to_fp" /\ fp_type \in DOMAIN _FP_FUNCS /\ pc \notin {"l264", "l273"}
        /\ mol_obj = NoMol) =>
        /\ pc = "done"
        /\ ret = Raise("ValueError", mol.repr)
        /\ mol.type \in {"str", "NoneType"}
        /\ \A k \in 1 .. Len(calls) : calls[k].fn = "to_mol"
        /\ fp = None

C5_Witness ==
    /\ ToFpDone
    /\ fp_type = "ecfp"
    /\ mol = Text("text1")
    /\ calls = <<Call("to_mol", "text1", EmptyArgs)>>
    /\ ret = Raise("ValueError", "text1")

\* The calls that hand the arguments to the native layer: a generator
\* factory, or a direct function.
NativeEntries == {_FP_FUNCS[t] : t \in DOMAIN _FP_FUNCS}

\* C6: the arguments to_fp passes to the native layer have the keys of the
\* caller's arguments and of the tag's defaults; a key the caller gave keeps
\* the caller's value, any other default key has its default value.
C6_MergedArguments ==
    op = "to_fp" =>
        \A k \in 1 .. Len(calls) :
            calls[k].fn \in NativeEntries =>
                LET a == calls[k].args
                    d == _FP_DEFAULT_ARGS[fp_type]
                IN  /\ DOMAIN a = DOMAIN kwargs \cup DOMAIN d
                    /\ \A key \in DOMAIN kwargs : a[key] = kwargs[key]
                    /\ \A key \in DOMAIN d \ DOMAIN kwargs : a[key] = d[key]

C6_Witness ==
    /\ ToFpDone
    /\ fp_type = "ecfp"
    /\ kwargs = [fpSize |-> "None", custom |-> "0"]
    /\ ret.status = "return"
    /\ calls[1] = Call("GetMorganGenerator", "",
                       [_FP_DEFAULT_ARGS["ecfp"] EXCEPT !.fpSize = "None"] @@ [custom |-> "0"])

\* C7: every tag of the registry (the generator tags among them) has default
\* arguments, and the lookup of the defaults in to_fp never fails.
C7_RegisteredTagsHaveDefaults ==
    /\ DOMAIN _FP_GENERATORS \subseteq DOMAIN _FP_FUNCS
    /\ DOMAIN _FP_FUNCS \subseteq DOMAIN _FP_DEFAULT_ARGS
    /\ (op = "to_fp" /\ pc \notin {"l264", "l273"} /\ fp_type \in DOMAIN _FP_FUNCS
           /\ mol_obj # NoMol) => fp_type \in DOMAIN _FP_DEFAULT_ARGS
    /\ ~(ret.status = "raise" /\ ret.exc = "KeyError")

C7_Witness ==
    /\ op = "to_fp"
    /\ pc = "l288"
    /\ fp_type = "rdkit-count"
    /\ fp_args = _FP_DEFAULT_ARGS["rdkit-count"]

\* C8: for every sparse integer count map (also one without nonzero element)
\* fp_to_array returns a dense array of the declared length whose element i is
\* the count stored at i, and 0 where none is stored.
C8_CountMapToArray ==
    (ArrayDone /\ fp.type \in SparseIntVectTypes) =>
        /\ ret.status = "return"
        /\ ret.value.type = "ndarray"
        /\ ret.value.length = fp.length
        /\ DOMAIN ret.value.elems = 0 .. fp.length - 1
        /\ \A i \in 0 .. fp.length - 1 :
              ret.value.elems[i] = IF i \in DOMAIN fp.elems THEN fp.elems[i] ELSE 0

\* The statement of C8 for the maps that have at least one nonzero element.
CountMapToArrayNonEmpty ==
    (ArrayDone /\ fp.type \in SparseIntVectTypes /\ DOMAIN fp.elems # {}) =>
        /\ ret.status = "return"
        /\ ret.value.type = "ndarray"
        /\ ret.value.length = fp.length
        /\ DOMAIN ret.value.elems = 0 .. fp.length - 1
        /\ \A i \in 0 .. fp.length - 1 :
              ret.value.elems[i] = IF i \in DOMAIN fp.elems THEN fp.elems[i] ELSE 0

\* C9: fold_count_fp of a dense array, a dense bit array or any other value
\* that is neither a sparse count map nor a sparse bit set raises the
\* type error and returns no array, for every dim and either binary.
C9_DenseInputRaises ==
    (FoldDone /\ ~IsSparse(fp)) =>
        /\ ret.status = "raise"
        /\ ret.exc = "ValueError"
        /\ ret.arg = fp.type
        /\ ret.value = None

C9_Witness ==
    /\ FoldDone
    /\ fp.type = "ExplicitBitVect"
    /\ fp.length = MaxLen
    /\ \A i \in DOMAIN fp.elems : fp.elems[i] = 1
    /\ dim = 1
    /\ binary
    /\ ret.status = "raise"

GeneratorTags ==
    {"ecfp", "fcfp", "topological", "atompair", "rdkit",
     "ecfp-count", "fcfp-count", "topological-count", "atompair-count", "rdkit-count"}

CountGeneratorTags ==
    {"ecfp-count", "fcfp-count", "topological-count", "atompair-count", "rdkit-count"}

Factories ==
    {"GetMorganGenerator", "GetTopologicalTorsionGenerator", "GetAtomPairGenerator",
     "GetRDKitFPGenerator"}

\* The native calls of the log: all but the parser, the folder and the normalizer.
NativeCalls == SelectSeq(calls, LAMBDA c : c.fn \notin {"to_mol", "fold_count_fp", "fp_to_array"})

\* C10: in a successful to_fp call, a generator tag builds the generator from
\* the merged arguments and calls exactly one method on the structure, the
\* count method exactly for the tags ending in "-count"; any other tag
\* ("avalon-count" too) calls its function once on the structure with the
\* merged arguments and builds no generator.
C10_StrategyByTag ==
    (ToFpDone /\ ret.status = "return") =>
        IF fp_type \in GeneratorTags
        THEN NativeCalls =
                <<Call(_FP_GENERATORS[fp_type], "", fp_args),
                  Call(IF fp_type \in CountGeneratorTags
                       THEN "GetCountFingerprint" ELSE "GetFingerprint",
                       mol.repr, EmptyArgs)>>
        ELSE /\ NativeCalls[1] = Call(_FP_FUNCS[fp_type], mol.repr, fp_args)
             /\ \A k \in 2 .. Len(NativeCalls) :
                   NativeCalls[k].fn \notin
                       NativeEntries \cup {"GetFingerprint", "GetCountFingerprint"}
             /\ \A k \in 1 .. Len(NativeCalls) :
                   NativeCalls[k].fn \notin Factories

C10_Witness ==
    /\ ToFpDone
    /\ ret.status = "return"
    /\ fp_type = "rdkit-count"
    /\ Len(NativeCalls) = 2
    /\ NativeCalls[2].fn = "GetCountFingerprint"

====
